---- MODULE Spec2Model ----
(***************************************************************************)
(* A model of ctqtools: the concurrent Index Builder (indexer.py), the     *)
(* Organizer (organize_dicom.py) with its grouping, deduplication,         *)
(* ordering, sequential naming and concurrent materialization, and the     *)
(* series-level Aggregator.  Strings are sequences of one-character        *)
(* strings, so that name formatting, splitext, basename and sanitize are   *)
(* computed character by character as the code computes them.              *)
(***************************************************************************)
EXTENDS Integers, Sequences, FiniteSets, TLC

\* ------------------------------------------------------------------ bounds
MaxPaths == 3
MaxIndexWorkers == 2
MaxRecs == 2
MaxCopyWorkers == 2
MaxRuns == 3
MaxPlanRecs == 2
\* the number of indexed files a QA analysis is given
MaxQaRecs == 4
\* the number of indexed files the missing-tags analysis is given
MaxCritRecs == 2
\* the number of indexed files the duplicate and hierarchy analyses are given
MaxDupRecs == 2
\* the length of a protocol label and of a rule list
MaxLabelLen == 2
MaxRules == 2
\* the number of indexed files the filters are given
MaxFilterRecs == 1

\* --------------------------------------------------------------- variables
VARIABLES
  \* build_index (indexer.py)
  bi_n,            \* len(inputs): the inputs are the distinct paths 1..bi_n
  bi_max_workers,  \* max_workers
  bi_hang,         \* the paths whose read_metadata never returns
  bi_fut,          \* futures[i]: "none" | "pending" | "running" | "ok" | "raised"
  bi_yielded,      \* the futures as_completed has already handed to the loop
  bi_rows,         \* rows
  bi_pc,           \* "submit" | "collect" | "done"
  \* the organize loop of main (organize_dicom.py)
  ns,              \* the parsed arguments
  df,              \* the filtered, enriched DataFrame: [rows, cols]
  gone,            \* the indexed paths that no longer exist on disk
  fs,              \* the files under the output root: path -> content
  fs_at_start,     \* fs as the current run found it
  run,             \* which run of the program on this output root this is
  gi,              \* the position of the groupby loop
  fi,              \* the position of the result loop in futures
  pc,              \* "group" | "collect" | "unwinding" | "aborted" | "done"
  futures,         \* the group's submitted tasks
  manifest_rows,   \* manifest_rows
  \* the names and the series table of main, as functions of df
  main_pc,         \* "organize" | "aggregate" | "end"
  plan,            \* per group: its key, target directory and tasks
  series_df,       \* series_df
  \* one call of a function of qa.py, config.py or apply_filters
  fn_pc,           \* "call" | "returned" | "raised" | "idle"
  call,            \* the function called and its arguments
  ret              \* what the call returned, or Raised

biVars == <<bi_n, bi_max_workers, bi_hang, bi_fut, bi_yielded, bi_rows, bi_pc>>

orgVars == <<ns, df, gone, fs, fs_at_start, run, gi, fi, pc, futures, manifest_rows>>

mainVars == <<main_pc, plan, series_df>>

fnVars == <<fn_pc, call, ret>>

vars == <<biVars, orgVars, mainVars, fnVars>>


\* ================================================================= strings
\* A string is a sequence of one-character strings.  NA is the null of a
\* DataFrame cell (None / NaN); NaN is the null of a numeric cell and
\* <<n>> the number n.
NA == <<"<NA>">>
NaN == <<>>
Num(n) == <<n>>

Digits == <<"0", "1", "2", "3", "4", "5", "6", "7", "8", "9">>

IsDigit(c) == \E d \in 1..10 : Digits[d] = c

DigitValue(c) == (CHOOSE d \in 1..10 : Digits[d] = c) - 1

\* str(n) for n >= 0
RECURSIVE StrInt(_)
StrInt(n) == IF n < 10 THEN <<Digits[n + 1]>>
             ELSE StrInt(n \div 10) \o <<Digits[(n % 10) + 1]>>

RECURSIVE Zeros(_)
Zeros(k) == IF k <= 0 THEN <<>> ELSE <<"0">> \o Zeros(k - 1)

\* f"{idx:0{pad}d}"
ZeroPad(idx, pad) == Zeros(pad - Len(StrInt(idx))) \o StrInt(idx)

RECURSIVE ParseDigits(_)
ParseDigits(s) == IF s = <<>> THEN 0
                  ELSE 10 * ParseDigits(SubSeq(s, 1, Len(s) - 1)) + DigitValue(s[Len(s)])

\* pd.to_numeric(value, errors="coerce") on the values the model draws:
\* a null or non-numeric cell gives NaN
to_numeric(v) ==
  IF v = NA \/ v = <<>> \/ \E i \in 1..Len(v) : ~IsDigit(v[i]) THEN NaN
  ELSE Num(ParseDigits(v))

\* ord(c) of the characters the model uses
CodePoint(c) ==
  CASE c = " " -> 32 [] c = "-" -> 45 [] c = "." -> 46 [] c = "/" -> 47
    [] c = "0" -> 48 [] c = "1" -> 49 [] c = "2" -> 50 [] c = "3" -> 51
    [] c = "4" -> 52 [] c = "5" -> 53 [] c = "6" -> 54 [] c = "7" -> 55
    [] c = "8" -> 56 [] c = "9" -> 57 [] c = "^" -> 94 [] c = "_" -> 95
    [] c = "a" -> 97 [] c = "b" -> 98 [] c = "c" -> 99 [] c = "d" -> 100
    [] c = "n" -> 110 [] c = "x" -> 120
    [] OTHER -> 127

\* Python's str < str
RECURSIVE StrLess(_, _)
StrLess(a, b) ==
  IF a = <<>> THEN b # <<>>
  ELSE IF b = <<>> THEN FALSE
  ELSE IF a[1] = b[1] THEN StrLess(Tail(a), Tail(b))
  ELSE CodePoint(a[1]) < CodePoint(b[1])

\* s.rfind(c) + 1: the last position of c in s, 0 when there is none
rfind(s, c) ==
  IF \E i \in 1..Len(s) : s[i] = c
  THEN CHOOSE i \in 1..Len(s) : s[i] = c /\ \A j \in (i + 1)..Len(s) : s[j] # c
  ELSE 0

\* os.path.basename
basename(p) == SubSeq(p, rfind(p, "/") + 1, Len(p))

\* os.path.splitext: the extension starts at the last dot of the last path
\* component, unless only dots precede it there
splitext(p) ==
  LET sepIndex == rfind(p, "/")
      dotIndex == rfind(p, ".")
  IN  IF dotIndex > sepIndex
         /\ \E i \in (sepIndex + 1)..(dotIndex - 1) : p[i] # "."
      THEN <<SubSeq(p, 1, dotIndex - 1), SubSeq(p, dotIndex, Len(p))>>
      ELSE <<p, <<>>>>

\* os.path.join(a, b) for a relative b
join(a, b) == a \o <<"/">> \o b

AllowedChars ==
  {"a", "b", "c", "d", "e", "f", "g", "h", "i", "j", "k", "l", "m", "n", "o",
   "p", "q", "r", "s", "t", "u", "v", "w", "x", "y", "z",
   "A", "B", "C", "D", "E", "F", "G", "H", "I", "J", "K", "L", "M", "N", "O",
   "P", "Q", "R", "S", "T", "U", "V", "W", "X", "Y", "Z",
   "0", "1", "2", "3", "4", "5", "6", "7", "8", "9", "-", "_", ".", " "}

RECURSIVE strip(_)
strip(t) ==
  IF t = <<>> THEN t
  ELSE IF t[1] = " " THEN strip(Tail(t))
  ELSE IF t[Len(t)] = " " THEN strip(SubSeq(t, 1, Len(t) - 1))
  ELSE t

\* re.sub(r"[\s]+", " ", t)
RECURSIVE collapse(_)
collapse(t) ==
  IF Len(t) < 2 THEN t
  ELSE IF t[1] = " " /\ t[2] = " " THEN collapse(Tail(t))
  ELSE <<t[1]>> \o collapse(Tail(t))

\* utils.sanitize
sanitize(text) ==
  LET t == collapse(strip(text))
  IN  [i \in 1..Len(t) |-> IF t[i] \in AllowedChars THEN t[i] ELSE "_"]

\* str(v) of a groupby key component: the null key is NaN
str(v) == IF v = NA THEN <<"n", "a", "n">> ELSE v

\* =============================================================== DataFrame
\* A row maps every column name and "_path" to a string or NA; cols is the
\* set of columns the DataFrame has (df.columns).  In the fixed-key mode of
\* read_metadata every DEFAULT_KEYS column exists, holding None where the
\* file lacks the attribute.
Columns ==
  {"PatientName", "PatientID", "ProtocolNorm", "StudyInstanceUID",
   "SeriesInstanceUID", "SeriesNumber", "SOPInstanceUID", "InstanceNumber",
   "ImagePositionPatient", "AcquisitionTime", "Modality", "StudyDate"}

\* for col in ["PatientName", "PatientID", "SeriesInstanceUID"]:
\*     if col not in df.columns: df[col] = "NA"
BaseColumns == {"PatientName", "PatientID", "SeriesInstanceUID"}

EnsureBaseColumns(frame) ==
  [rows |-> [i \in 1..Len(frame.rows) |->
               [c \in DOMAIN frame.rows[i] |->
                  IF c \in BaseColumns /\ c \notin frame.cols THEN <<"N", "A">>
                  ELSE frame.rows[i][c]]],
   cols |-> frame.cols \cup BaseColumns]

series_cols(cols) ==
  <<"PatientName", "PatientID", "ProtocolNorm", "StudyInstanceUID",
    "SeriesInstanceUID",
    IF "SeriesNumber" \in cols THEN "SeriesNumber" ELSE "SeriesInstanceUID">>

\* the key tuple of a row under df.groupby(series_cols, dropna=False)
GroupKey(r, cols) == [i \in 1..6 |-> r[series_cols(cols)[i]]]

\* the keys of groupby(..., sort=False), in the order of first appearance
RECURSIVE GroupKeys(_, _)
GroupKeys(rows, cols) ==
  IF rows = <<>> THEN <<>>
  ELSE LET k == GroupKey(rows[1], cols)
       IN  <<k>> \o GroupKeys(SelectSeq(Tail(rows), LAMBDA r : GroupKey(r, cols) # k), cols)

\* a mutant: groupby with dropna=True loses the rows with a null key
GroupRowsDropNa(rows, cols, key) ==
  SelectSeq(rows, LAMBDA r : GroupKey(r, cols) = key
                             /\ \A i \in 1..6 : key[i] # NA)

\* the rows of one group, in DataFrame order
GroupRows(rows, cols, key) ==
  SelectSeq(rows, LAMBDA r : GroupKey(r, cols) = key)

\* g.drop_duplicates(subset=["SOPInstanceUID"], keep="first"); nulls are
\* equal to each other
RECURSIVE drop_duplicates(_)
drop_duplicates(g) ==
  IF g = <<>> THEN <<>>
  ELSE <<g[1]>> \o drop_duplicates(
         SelectSeq(Tail(g), LAMBDA r : r["SOPInstanceUID"] # g[1]["SOPInstanceUID"]))

\* zpos(val): the third component of "[x, y, z]", "x\y\z" or "x,y,z"; a
\* model value is <<format, x, y, z>> with as many components as the text
\* has, anything else does not parse
zpos(val) ==
  IF val # NA /\ Len(val) >= 4 /\ val[1] \in {"[", "\\", ","} THEN Num(val[4])
  ELSE NaN

\* the order of sort_values([key, "_path"], na_position="first") on a
\* numeric key
NumLess(ka, kb, pa, pb) ==
  IF ka = NaN /\ kb = NaN THEN StrLess(pa, pb)
  ELSE IF ka = NaN THEN TRUE
  ELSE IF kb = NaN THEN FALSE
  ELSE ka[1] < kb[1] \/ (ka[1] = kb[1] /\ StrLess(pa, pb))

\* the order of sort_values([key, "_path"]) on a string key: nulls last
TextLess(ka, kb, pa, pb) ==
  IF ka = NA /\ kb = NA THEN StrLess(pa, pb)
  ELSE IF ka = NA THEN FALSE
  ELSE IF kb = NA THEN TRUE
  ELSE StrLess(ka, kb) \/ (ka = kb /\ StrLess(pa, pb))

\* which sort_values call the Orden block reaches for group g
SortMode(g, cols) ==
  IF "InstanceNumber" \in cols THEN "InstanceNumber"
  ELSE IF "ImagePositionPatient" \in cols
       THEN IF \E i \in 1..Len(g) : zpos(g[i]["ImagePositionPatient"]) # NaN
            THEN "zpos"
            ELSE IF "AcquisitionTime" \in cols THEN "AcquisitionTime" ELSE "path"
       ELSE IF "AcquisitionTime" \in cols THEN "AcquisitionTime" ELSE "path"

RowLess(a, b, mode) ==
  CASE mode = "InstanceNumber" ->
         NumLess(to_numeric(a["InstanceNumber"]), to_numeric(b["InstanceNumber"]),
                 a["_path"], b["_path"])
    [] mode = "zpos" ->
         NumLess(zpos(a["ImagePositionPatient"]), zpos(b["ImagePositionPatient"]),
                 a["_path"], b["_path"])
    [] mode = "AcquisitionTime" ->
         TextLess(a["AcquisitionTime"], b["AcquisitionTime"], a["_path"], b["_path"])
    [] OTHER -> StrLess(a["_path"], b["_path"])

RECURSIVE InsertRow(_, _, _)
InsertRow(sorted, r, mode) ==
  IF sorted = <<>> THEN <<r>>
  ELSE IF RowLess(r, sorted[1], mode) THEN <<r>> \o sorted
  ELSE <<sorted[1]>> \o InsertRow(Tail(sorted), r, mode)

\* g.sort_values(...): the rows have distinct paths, so the order is total
RECURSIVE sort_values(_, _)
sort_values(g, mode) ==
  IF g = <<>> THEN <<>>
  ELSE InsertRow(sort_values(Tail(g), mode), g[1], mode)

\* the Deduplicacion and Orden blocks of one group
OrderedGroup(g, cols) ==
  LET d == IF "SOPInstanceUID" \in cols THEN drop_duplicates(g) ELSE g
  IN  sort_values(d, SortMode(d, cols))

Max(a, b) == IF a >= b THEN a ELSE b

\* a mutant: the default width is the number of digits of the group size
PadWidthDigits(pad_width, total) ==
  IF pad_width > 0 THEN pad_width ELSE Len(StrInt(total))

\* pad = ns.pad_width if ns.pad_width and ns.pad_width > 0 else max(4, len(str(total)))
PadWidth(pad_width, total) ==
  IF pad_width > 0 THEN pad_width ELSE Max(4, Len(StrInt(total)))

\* test_dirname = f"Prueba_{s_patient}__{s_proto}__Series_{s_seriesnum}_{s_seriesuid}"
\* (the words Prueba and Series are single symbols of the model)
TargetDir(key) ==
  <<"Prueba", "_">> \o sanitize(str(key[1])) \o <<"_", "_">> \o sanitize(str(key[3]))
    \o <<"_", "_", "Series", "_">> \o sanitize(str(key[6])) \o <<"_">>
    \o sanitize(str(key[5]))

\* the body of the enumerate(g.iterrows(), start=1) loop: the task of the
\* idx-th row of the ordered group
PlannedTask(row, idx, pad, target_dir) ==
  LET src == row["_path"]
      base == basename(src)
      ext == splitext(base)[2]
      new_name == ZeroPad(idx, pad) \o ext
  IN  [base |-> base, new_name |-> new_name, src |-> src,
       dst |-> join(target_dir, new_name)]

\* the tasks of the group with key `key`, in sequential order
PlanGroup(frame, key, pad_width) ==
  LET g == OrderedGroup(GroupRows(frame.rows, frame.cols, key), frame.cols)
      pad == PadWidth(pad_width, Len(g))
      all == [idx \in 1..Len(g) |-> PlannedTask(g[idx], idx, pad, TargetDir(key))]
  IN  \* if not src or not os.path.exists(str(src)): continue
      SelectSeq(all, LAMBDA t : t.src \notin gone)

\* =============================================================== Organizer
\* The instance records the Organizer runs are drawn from: fixed-key rows
\* of one patient and study.  a.d and b are two copies of one instance in
\* series 1 (b has no extension and the lower InstanceNumber), c/a.d has
\* the same SOPInstanceUID in series 2, d.d is another instance of series 1
\* without InstanceNumber.
BlankRow(path) ==
  [c \in Columns \cup {"_path"} |->
     CASE c = "_path" -> path
       [] c = "PatientName" -> <<"p">>
       [] c = "PatientID" -> <<"1">>
       [] c = "ProtocolNorm" -> <<"N", "A">>
       [] c = "StudyInstanceUID" -> <<"1">>
       [] c = "SeriesInstanceUID" -> <<"1">>
       [] OTHER -> NA]

InstanceRow(path, series, sop, inum) ==
  [BlankRow(path) EXCEPT !["SeriesInstanceUID"] = series,
                         !["SOPInstanceUID"] = sop,
                         !["InstanceNumber"] = inum]

Catalogue ==
  {InstanceRow(<<"a", ".", "d">>, <<"1">>, <<"1">>, <<"2">>),
   InstanceRow(<<"b">>, <<"1">>, <<"1">>, <<"1">>),
   InstanceRow(<<"c", "/", "a", ".", "d">>, <<"2">>, <<"1">>, <<"1">>),
   InstanceRow(<<"d", ".", "d">>, <<"1">>, <<"2">>, NA)}

\* the sequences of n rows with pairwise distinct paths
RowSeqs(universe, n) ==
  {s \in [1..n -> universe] :
     \A i, j \in 1..n : i # j => s[i]["_path"] # s[j]["_path"]}

\* results of materialize held by a future
Skipped == <<"s", "k", "i", "p", "p", "e", "d">>
None == <<"<None>">>
Raised == <<"<exception>">>

ManifestName == <<"manifest.csv">>

FileContent(src, mode, r) == [kind |-> mode, src |-> src, run |-> r, rows |-> <<>>]
ManifestContent(rows) == [kind |-> "manifest", src |-> <<>>, run |-> 0, rows |-> rows]

\* the file system after writing content c at path p
WriteFile(files, p, c) ==
  [q \in DOMAIN files \cup {p} |-> IF q = p THEN c ELSE files[q]]

\* the file system after os.remove(p)
RemoveFile(files, p) == [q \in DOMAIN files \ {p} |-> files[q]]

\* the enriched DataFrame the organize loop iterates
OrgDf == EnsureBaseColumns(df)

OrgKeys == GroupKeys(OrgDf.rows, OrgDf.cols)

\* a mutant: the suffix search starts at 2
RenamedPathFrom2(dst_path, files) ==
  LET base == splitext(dst_path)[1]
      ext == splitext(dst_path)[2]
      cand(i) == base \o <<"_", "_">> \o StrInt(i) \o ext
      i == CHOOSE k \in 2..(Cardinality(DOMAIN files) + 2) :
             /\ cand(k) \notin DOMAIN files
             /\ \A m \in 2..(k - 1) : cand(m) \in DOMAIN files
  IN  cand(i)

\* the rename branch of materialize: base__i.ext for the first i >= 1 that
\* does not exist
RenamedPath(dst_path, files) ==
  LET base == splitext(dst_path)[1]
      ext == splitext(dst_path)[2]
      cand(i) == base \o <<"_", "_">> \o StrInt(i) \o ext
      i == CHOOSE k \in 1..(Cardinality(DOMAIN files) + 1) :
             /\ cand(k) \notin DOMAIN files
             /\ \A m \in 1..(k - 1) : cand(m) \in DOMAIN files
  IN  cand(i)

OrgInit ==
  /\ ns \in [on_collision : {"skip", "overwrite", "rename"},
             link_mode : {"copy", "hardlink", "symlink"},
             copy_workers : 1..MaxCopyWorkers,
             pad_width : {0},
             dry_run : BOOLEAN]
  /\ \E n \in 1..MaxRecs : \E rs \in RowSeqs(Catalogue, n) :
       df = [rows |-> rs, cols |-> Columns]
  /\ gone \in SUBSET {df.rows[i]["_path"] : i \in 1..Len(df.rows)}
  /\ fs = <<>>
  /\ fs_at_start = <<>>
  /\ run = 1
  /\ gi = 1
  /\ fi = 1
  /\ pc = "group"
  /\ futures = <<>>
  /\ manifest_rows = <<>>

ManifestRow(new_name, base, src) ==
  [new_name |-> new_name, original_name |-> base, src_path |-> src]

\* one iteration of the groupby loop up to the submission of its tasks:
\* ensure_dir, deduplication, order, names, ex.submit for every row
OrgStartGroup ==
  /\ pc = "group"
  /\ gi <= Len(OrgKeys)
  /\ ~ns.dry_run
  /\ LET tasks == PlanGroup(OrgDf, OrgKeys[gi], ns.pad_width)
     IN  futures' = [i \in 1..Len(tasks) |->
                       [base |-> tasks[i].base, new_name |-> tasks[i].new_name,
                        src |-> tasks[i].src, dst |-> tasks[i].dst,
                        state |-> "pending", dst_path |-> tasks[i].dst,
                        res |-> None]]
  /\ manifest_rows' = <<>>
  /\ fi' = 1
  /\ pc' = "collect"
  /\ UNCHANGED <<ns, df, gone, fs, fs_at_start, run, gi, biVars, mainVars, fnVars>>

\* the same iteration under --dry-run: rows are collected, nothing is submitted
OrgStartGroupDry ==
  /\ pc = "group"
  /\ gi <= Len(OrgKeys)
  /\ ns.dry_run
  /\ LET tasks == PlanGroup(OrgDf, OrgKeys[gi], ns.pad_width)
     IN  manifest_rows' = [i \in 1..Len(tasks) |->
                             ManifestRow(tasks[i].new_name, tasks[i].base, tasks[i].src)]
  /\ futures' = <<>>
  /\ fi' = 1
  /\ pc' = "collect"
  /\ UNCHANGED <<ns, df, gone, fs, fs_at_start, run, gi, biVars, mainVars, fnVars>>

OrgRunning == {t \in 1..Len(futures) : futures[t].state = "running"}

\* a worker of the pool (max_workers=max(1, ns.copy_workers)) is free and
\* task t is the oldest one queued
Startable(t) ==
  /\ futures[t].state = "pending"
  /\ \A j \in 1..(t - 1) : futures[j].state # "pending"
  /\ Cardinality(OrgRunning) < Max(1, ns.copy_workers)

TaskUnchanged == <<ns, df, gone, fs_at_start, run, gi, fi, pc, manifest_rows, biVars, mainVars, fnVars>>

\* materialize: os.path.exists(dst_path) is false
TaskNoCollision(t) ==
  /\ Startable(t)
  /\ futures[t].dst \notin DOMAIN fs
  /\ futures' = [futures EXCEPT ![t].state = "running"]
  /\ UNCHANGED <<fs, TaskUnchanged>>

\* a mutant: the skip branch writes the file anyway
TaskSkipOverwrites(t) ==
  /\ Startable(t)
  /\ futures[t].dst \in DOMAIN fs
  /\ ns.on_collision = "skip"
  /\ fs' = WriteFile(fs, futures[t].dst, FileContent(futures[t].src, ns.link_mode, run))
  /\ futures' = [futures EXCEPT ![t].state = "done", ![t].res = futures[t].dst]
  /\ UNCHANGED TaskUnchanged

\* materialize: the destination exists, on_collision == "skip"
TaskSkip(t) ==
  /\ Startable(t)
  /\ futures[t].dst \in DOMAIN fs
  /\ ns.on_collision = "skip"
  /\ futures' = [futures EXCEPT ![t].state = "done", ![t].res = Skipped]
  /\ UNCHANGED <<fs, TaskUnchanged>>

\* materialize: the destination exists, on_collision == "overwrite",
\* os.remove succeeds
TaskOverwrite(t) ==
  /\ Startable(t)
  /\ futures[t].dst \in DOMAIN fs
  /\ ns.on_collision = "overwrite"
  /\ fs' = RemoveFile(fs, futures[t].dst)
  /\ futures' = [futures EXCEPT ![t].state = "running"]
  /\ UNCHANGED TaskUnchanged

\* materialize: os.remove raises something other than FileNotFoundError
\* (PermissionError, IsADirectoryError); nothing catches it in materialize
TaskOverwriteRaises(t) ==
  /\ Startable(t)
  /\ futures[t].dst \in DOMAIN fs
  /\ ns.on_collision = "overwrite"
  /\ futures' = [futures EXCEPT ![t].state = "done", ![t].res = Raised]
  /\ UNCHANGED <<fs, TaskUnchanged>>

\* materialize: the destination exists, on_collision == "rename"
TaskRename(t) ==
  /\ Startable(t)
  /\ futures[t].dst \in DOMAIN fs
  /\ ns.on_collision = "rename"
  /\ futures' = [futures EXCEPT ![t].state = "running",
                                ![t].dst_path = RenamedPath(futures[t].dst, fs)]
  /\ UNCHANGED <<fs, TaskUnchanged>>

\* materialize: shutil.copy2(src_path, dst_path) succeeds
TaskCopy(t) ==
  /\ futures[t].state = "running"
  /\ ns.link_mode = "copy"
  /\ fs' = WriteFile(fs, futures[t].dst_path,
                     FileContent(futures[t].src, "copy", run))
  /\ futures' = [futures EXCEPT ![t].state = "done", ![t].res = futures[t].dst_path]
  /\ UNCHANGED TaskUnchanged

\* materialize: shutil.copy2 raises: except Exception: return None
TaskCopyFails(t) ==
  /\ futures[t].state = "running"
  /\ ns.link_mode = "copy"
  /\ futures' = [futures EXCEPT ![t].state = "done", ![t].res = None]
  /\ UNCHANGED <<fs, TaskUnchanged>>

\* materialize: os.link / os.symlink succeeds (the name must be free)
TaskLink(t) ==
  /\ futures[t].state = "running"
  /\ ns.link_mode \in {"hardlink", "symlink"}
  /\ futures[t].dst_path \notin DOMAIN fs
  /\ fs' = WriteFile(fs, futures[t].dst_path,
                     FileContent(futures[t].src, ns.link_mode, run))
  /\ futures' = [futures EXCEPT ![t].state = "done", ![t].res = futures[t].dst_path]
  /\ UNCHANGED TaskUnchanged

\* materialize: the file system rejects os.link / os.symlink (or the call
\* fails otherwise): except Exception: return None
TaskLinkRejected(t) ==
  /\ futures[t].state = "running"
  /\ ns.link_mode \in {"hardlink", "symlink"}
  /\ futures' = [futures EXCEPT ![t].state = "done", ![t].res = None]
  /\ UNCHANGED <<fs, TaskUnchanged>>

CollectUnchanged == <<ns, df, gone, fs, fs_at_start, run, gi, futures, biVars, mainVars, fnVars>>

\* a mutant: the collected row is put in front of the rows collected so far
OrgCollectRowInFront ==
  /\ pc = "collect"
  /\ fi <= Len(futures)
  /\ futures[fi].state = "done"
  /\ futures[fi].res \notin {None, Raised}
  /\ manifest_rows' = <<ManifestRow(basename(futures[fi].res), futures[fi].base,
                                    futures[fi].src)>> \o manifest_rows
  /\ fi' = fi + 1
  /\ UNCHANGED <<pc, CollectUnchanged>>

\* for base, new_name, src, fut in futures: res = fut.result();
\* manifest_rows.append({"new_name": os.path.basename(res), ...})
OrgCollectRow ==
  /\ pc = "collect"
  /\ fi <= Len(futures)
  /\ futures[fi].state = "done"
  /\ futures[fi].res \notin {None, Raised}
  /\ manifest_rows' = Append(manifest_rows,
                             ManifestRow(basename(futures[fi].res), futures[fi].base,
                                         futures[fi].src))
  /\ fi' = fi + 1
  /\ UNCHANGED <<pc, CollectUnchanged>>

\* res is None: continue
OrgCollectNone ==
  /\ pc = "collect"
  /\ fi <= Len(futures)
  /\ futures[fi].state = "done"
  /\ futures[fi].res = None
  /\ fi' = fi + 1
  /\ UNCHANGED <<pc, manifest_rows, CollectUnchanged>>

\* fut.result() re-raises the task's exception: it leaves the loop and the
\* with block, whose exit waits for the tasks still queued or running
OrgCollectRaises ==
  /\ pc = "collect"
  /\ fi <= Len(futures)
  /\ futures[fi].state = "done"
  /\ futures[fi].res = Raised
  /\ pc' = "unwinding"
  /\ UNCHANGED <<fi, manifest_rows, CollectUnchanged>>

\* the executor has shut down; the exception leaves main
OrgAbort ==
  /\ pc = "unwinding"
  /\ \A t \in 1..Len(futures) : futures[t].state = "done"
  /\ pc' = "aborted"
  /\ UNCHANGED <<fi, manifest_rows, CollectUnchanged>>

ManifestPath(key) == join(TargetDir(key), ManifestName)

\* if not ns.dry_run and manifest_rows: pd.DataFrame(manifest_rows).to_csv(man_csv)
OrgWriteManifest ==
  /\ pc = "collect"
  /\ fi > Len(futures)
  /\ ~ns.dry_run /\ manifest_rows # <<>>
  /\ fs' = WriteFile(fs, ManifestPath(OrgKeys[gi]), ManifestContent(manifest_rows))
  /\ gi' = gi + 1
  /\ pc' = "group"
  /\ UNCHANGED <<ns, df, gone, fs_at_start, run, fi, futures, manifest_rows, biVars, mainVars, fnVars>>

OrgNoManifest ==
  /\ pc = "collect"
  /\ fi > Len(futures)
  /\ ns.dry_run \/ manifest_rows = <<>>
  /\ gi' = gi + 1
  /\ pc' = "group"
  /\ UNCHANGED <<ns, df, gone, fs, fs_at_start, run, fi, futures, manifest_rows, biVars, mainVars, fnVars>>

\* the groupby loop is exhausted
OrgFinish ==
  /\ pc = "group"
  /\ gi > Len(OrgKeys)
  /\ pc' = "done"
  /\ UNCHANGED <<ns, df, gone, fs, fs_at_start, run, gi, fi, futures, manifest_rows, biVars, mainVars, fnVars>>

\* the program is run again on the same records and output root
OrgRerun ==
  /\ pc \in {"done", "aborted"}
  /\ run < MaxRuns
  /\ run' = run + 1
  /\ fs_at_start' = fs
  /\ gi' = 1
  /\ fi' = 1
  /\ pc' = "group"
  /\ futures' = <<>>
  /\ manifest_rows' = <<>>
  /\ UNCHANGED <<ns, df, gone, fs, biVars, mainVars, fnVars>>

Tasks == 1..Len(futures)

OrgNext ==
  \/ OrgStartGroup
  \/ OrgStartGroupDry
  \/ \E t \in Tasks : TaskNoCollision(t)
  \/ \E t \in Tasks : TaskSkip(t)
  \/ \E t \in Tasks : TaskOverwrite(t)
  \/ \E t \in Tasks : TaskOverwriteRaises(t)
  \/ \E t \in Tasks : TaskRename(t)
  \/ \E t \in Tasks : TaskCopy(t)
  \/ \E t \in Tasks : TaskCopyFails(t)
  \/ \E t \in Tasks : TaskLink(t)
  \/ \E t \in Tasks : TaskLinkRejected(t)
  \/ OrgCollectRow
  \/ OrgCollectNone
  \/ OrgCollectRaises
  \/ OrgAbort
  \/ OrgWriteManifest
  \/ OrgNoManifest
  \/ OrgFinish
  \/ OrgRerun

\* ========================================================= names and tables
\* The planning of the organize loop and the series-level aggregation of
\* main, as functions of the DataFrame: the loop's names for every group,
\* then global_index_series.csv.
PlanPaths == {<<"a", ".", "d">>, <<"b">>, <<"c", "/", "a", ".", "d">>}

\* rows that differ in the identifiers the grouping and the counts read
KeyRows(path) ==
  {[BlankRow(path) EXCEPT !["PatientID"] = pid, !["SOPInstanceUID"] = sop] :
     pid \in {<<"1">>, NA}, sop \in {<<"1">>, <<"2">>, NA}}

\* rows of one series that differ in what the ordering reads
OrderRows(path) ==
  {[BlankRow(path) EXCEPT !["SOPInstanceUID"] = path,
                          !["InstanceNumber"] = inum,
                          !["ImagePositionPatient"] = ipp] :
     inum \in {NA, <<"1">>, <<"2">>},
     ipp \in {NA, <<"[", 0, 0, 1>>, <<"\\", 0, 0, 2>>, <<",", 0, 0, 3>>, <<",", 0, 0>>}}

\* rows of one series without InstanceNumber and without a parseable
\* position, which differ in AcquisitionTime
TimeRows(path) ==
  {[BlankRow(path) EXCEPT !["SOPInstanceUID"] = path,
                          !["AcquisitionTime"] = time,
                          !["ImagePositionPatient"] = ipp] :
     time \in {NA, <<"1">>, <<"2">>}, ipp \in {NA, <<",", 0, 0>>}}

MainInputs(n) ==
  RowSeqs(UNION {KeyRows(p) : p \in PlanPaths}, n)
    \cup RowSeqs(UNION {OrderRows(p) : p \in PlanPaths}, n)
    \cup RowSeqs(UNION {TimeRows(p) : p \in PlanPaths}, n)

\* df.columns: every DEFAULT_KEYS column in the fixed-key mode; with
\* --all-tags the attributes some file has, and ProtocolNorm
ColumnsOf(rows, all_tags) ==
  IF ~all_tags THEN Columns
  ELSE {c \in Columns : \E i \in 1..Len(rows) : rows[i][c] # NA} \cup {"ProtocolNorm"}

MainInit ==
  /\ \E n \in 1..MaxPlanRecs : \E rs \in MainInputs(n) : \E all_tags \in BOOLEAN :
       df = [rows |-> rs, cols |-> ColumnsOf(rs, all_tags)]
  /\ ns \in [on_collision : {"skip"}, link_mode : {"copy"}, copy_workers : {1},
             pad_width : {0, 1}, dry_run : {TRUE}]
  /\ main_pc = "organize"
  /\ plan = <<>>
  /\ series_df = <<>>

\* the names the organize loop gives: for every group, in groupby order,
\* its target directory and its tasks
MainOrganize ==
  /\ main_pc = "organize"
  /\ plan' = [g \in 1..Len(OrgKeys) |->
                [key |-> OrgKeys[g], target_dir |-> TargetDir(OrgKeys[g]),
                 tasks |-> PlanGroup(OrgDf, OrgKeys[g], ns.pad_width)]]
  /\ main_pc' = "aggregate"
  /\ UNCHANGED <<series_df, orgVars, biVars, fnVars>>

\* s_cols of main, restricted to the columns df has
s_cols(cols) ==
  SelectSeq(<<"PatientID", "StudyInstanceUID", "SeriesInstanceUID",
              IF "SeriesNumber" \in cols THEN "SeriesNumber" ELSE "SeriesInstanceUID",
              "ProtocolNorm", "Modality">>,
            LAMBDA c : c \in cols)

SeriesKey(r, cols) == [i \in 1..Len(s_cols(cols)) |-> r[s_cols(cols)[i]]]

RECURSIVE SeriesKeys(_, _)
SeriesKeys(rows, cols) ==
  IF rows = <<>> THEN <<>>
  ELSE LET k == SeriesKey(rows[1], cols)
       IN  <<k>> \o SeriesKeys(SelectSeq(Tail(rows), LAMBDA r : SeriesKey(r, cols) # k), cols)

\* base_col = "SOPInstanceUID" if "SOPInstanceUID" in df.columns else s_cols[0]
base_col(cols) == IF "SOPInstanceUID" \in cols THEN "SOPInstanceUID" ELSE s_cols(cols)[1]

\* the groupby aggregation "count": the non-null cells of the column
Count(g, col) == Len(SelectSeq(g, LAMBDA r : r[col] # NA))

\* the groupby aggregations "min" and "max" of a column of strings: nulls
\* are skipped, an all-null group gives null
StrMin(g, col) ==
  LET vals == {g[i][col] : i \in 1..Len(g)} \ {NA}
  IN  IF vals = {} THEN NA
      ELSE CHOOSE v \in vals : \A w \in vals : v = w \/ StrLess(v, w)

StrMax(g, col) ==
  LET vals == {g[i][col] : i \in 1..Len(g)} \ {NA}
  IN  IF vals = {} THEN NA
      ELSE CHOOSE v \in vals : \A w \in vals : v = w \/ StrLess(w, v)

\* grp.agg(n_instances=(base_col, "count"), instance_min=..., instance_max=...)
\*    .reset_index()
Aggregate(frame) ==
  LET keys == SeriesKeys(frame.rows, frame.cols)
      inst_col == IF "InstanceNumber" \in frame.cols THEN "InstanceNumber"
                  ELSE base_col(frame.cols)
      members(k) == SelectSeq(frame.rows, LAMBDA r : SeriesKey(r, frame.cols) = k)
  IN  [g \in 1..Len(keys) |->
         [key |-> keys[g],
          n_instances |-> Count(members(keys[g]), base_col(frame.cols)),
          instance_min |-> StrMin(members(keys[g]), inst_col),
          instance_max |-> StrMax(members(keys[g]), inst_col)]]

MainAggregate ==
  /\ main_pc = "aggregate"
  /\ series_df' = Aggregate(OrgDf)
  /\ main_pc' = "end"
  /\ UNCHANGED <<plan, orgVars, biVars, fnVars>>

MainNext ==
  \/ MainOrganize
  \/ MainAggregate

MainIdle ==
  /\ main_pc = "end"
  /\ plan = <<>>
  /\ series_df = <<>>

OrgRest ==
  /\ gone = {}
  /\ fs = <<>>
  /\ fs_at_start = <<>>
  /\ run = 1
  /\ gi = 1
  /\ fi = 1
  /\ pc = "done"
  /\ futures = <<>>
  /\ manifest_rows = <<>>

\* =============================================================== QA Engine
\* The analyses of qa.py as functions of the DataFrame they are given.  A
\* call is drawn, the function is applied, and ret holds what it returned:
\* a sequence of rows (empty for an empty DataFrame).
QaColumns ==
  {"PatientID", "StudyInstanceUID", "SeriesInstanceUID", "SOPInstanceUID",
   "InstanceNumber", "ProtocolName", "SeriesDescription"}

\* the path of the i-th indexed file
QaPath(i) == <<"f">> \o StrInt(i)

QaRow(path, pid, series, sop, inum) ==
  [c \in QaColumns \cup {"_path"} |->
     CASE c = "_path" -> path
       [] c = "PatientID" -> pid
       [] c = "StudyInstanceUID" -> <<"1">>
       [] c = "SeriesInstanceUID" -> series
       [] c = "SOPInstanceUID" -> sop
       [] c = "InstanceNumber" -> inum
       [] OTHER -> NA]

\* df.columns of a DataFrame of QA rows: every column in the fixed-key
\* mode, the attributes some file has with --all-tags
QaColumnsOf(rows, all_tags) ==
  IF ~all_tags THEN QaColumns
  ELSE {c \in QaColumns : \E i \in 1..Len(rows) : rows[i][c] # NA}

QaFrame(rows, all_tags) == [rows |-> rows, cols |-> QaColumnsOf(rows, all_tags)]

\* one series with instance numbers that leave gaps, repeat, do not parse
\* or are missing
GapCells == {NA, <<"x">>, <<"1">>, <<"2">>, <<"4">>, <<"5">>, <<"6", "0">>}

GapRows(n, f) ==
  [i \in 1..n |-> QaRow(QaPath(i), <<"1">>, <<"1">>, QaPath(i), f[i])]

\* several series, one of them without SeriesInstanceUID
SeriesCells == {<<"1">>, NA} \X {NA, <<"1">>, <<"3">>}

SeriesRows(n, f) ==
  [i \in 1..n |-> QaRow(QaPath(i), <<"1">>, f[i][1], QaPath(i), f[i][2])]

\* the values of a set of strings in the order of a sorted groupby: nulls last
RECURSIVE SortStrs(_)
SortStrs(S) ==
  IF S = {} THEN <<>>
  ELSE LET m == IF S = {NA} THEN NA
                ELSE CHOOSE v \in S \ {NA} : \A w \in S \ {NA} : v = w \/ StrLess(v, w)
       IN  <<m>> \o SortStrs(S \ {m})

\* sorted(S) of a set of integers
RECURSIVE SortInts(_)
SortInts(S) ==
  IF S = {} THEN <<>>
  ELSE LET m == CHOOSE v \in S : \A w \in S : v <= w
       IN  <<m>> \o SortInts(S \ {m})

\* g["InstanceNumber_num"].dropna().astype(int).sort_values().tolist()
RECURSIVE SortNums(_)
SortNums(s) ==
  IF s = <<>> THEN <<>>
  ELSE LET k == CHOOSE i \in 1..Len(s) : \A j \in 1..Len(s) : s[i] <= s[j]
       IN  <<s[k]>> \o SortNums([i \in 1..(Len(s) - 1) |-> IF i < k THEN s[i] ELSE s[i + 1]])

GroupNums(g) ==
  LET parsed == SelectSeq([i \in 1..Len(g) |-> to_numeric(g[i]["InstanceNumber"])],
                          LAMBDA v : v # NaN)
  IN  SortNums([i \in 1..Len(parsed) |-> parsed[i][1]])

\* ",".join(map(str, values))
RECURSIVE JoinInts(_)
JoinInts(s) ==
  IF s = <<>> THEN <<>>
  ELSE IF Len(s) = 1 THEN StrInt(s[1])
  ELSE StrInt(s[1]) \o <<",">> \o JoinInts(Tail(s))

\* missing[:50]
MissingListLimit == 50

\* the marker appended to a truncated list
Ellipsis == <<"...">>

Min(a, b) == IF a <= b THEN a ELSE b

\* a mutant: n_missing counts the listed values
GapRecordCountsListed(sid, nums) ==
  LET expected == nums[1]..nums[Len(nums)]
      actual == {nums[i] : i \in 1..Len(nums)}
      missing == SortInts(expected \ actual)
      listed == SubSeq(missing, 1, Min(MissingListLimit, Len(missing)))
  IN  [SeriesInstanceUID |-> sid, min |-> nums[1], max |-> nums[Len(nums)],
       n_expected |-> Cardinality(expected), n_actual |-> Cardinality(actual),
       n_missing |-> Len(listed),
       missing_list |-> JoinInts(listed)
                          \o (IF Len(missing) > MissingListLimit THEN Ellipsis ELSE <<>>)]

\* the record detect_instance_gaps appends for a series with sorted values nums
GapRecord(sid, nums) ==
  LET expected == nums[1]..nums[Len(nums)]
      actual == {nums[i] : i \in 1..Len(nums)}
      missing == SortInts(expected \ actual)
  IN  [SeriesInstanceUID |-> sid, min |-> nums[1], max |-> nums[Len(nums)],
       n_expected |-> Cardinality(expected), n_actual |-> Cardinality(actual),
       n_missing |-> Len(missing),
       missing_list |-> JoinInts(SubSeq(missing, 1, Min(MissingListLimit, Len(missing))))
                          \o (IF Len(missing) > MissingListLimit THEN Ellipsis ELSE <<>>)]

detect_instance_gaps(frame) ==
  IF "InstanceNumber" \notin frame.cols \/ "SeriesInstanceUID" \notin frame.cols
  THEN <<>>
  ELSE LET sids == SortStrs({frame.rows[i]["SeriesInstanceUID"] : i \in 1..Len(frame.rows)})
           nums(sid) == GroupNums(SelectSeq(frame.rows,
                                            LAMBDA r : r["SeriesInstanceUID"] = sid))
           kept == SelectSeq(sids, LAMBDA sid : nums(sid) # <<>>)
       IN  [k \in 1..Len(kept) |-> GapRecord(kept[k], nums(kept[k]))]

\* ---- missing_critical_tags
\* the empty string
Empty == <<>>

crit == <<"PatientID", "StudyInstanceUID", "SeriesInstanceUID", "SOPInstanceUID">>

CritCells ==
  {NA, Empty, <<"1">>} \X {NA, <<"1">>} \X {NA, <<"1">>} \X {NA, Empty, <<"1">>}

CritRows(n, f) ==
  [i \in 1..n |->
     [QaRow(QaPath(i), f[i][1], f[i][3], f[i][4], NA)
        EXCEPT !["StudyInstanceUID"] = f[i][2]]]

\* df[c].isna() | (df[c].astype(str) == "")
IsBlank(v) == v = NA \/ str(v) = Empty

\* mask, OR-ed over the present identifiers
CriticalMask(present, r) ==
  \E k \in 1..Len(present) : IsBlank(r[present[k]])

missing_critical_tags(frame) ==
  LET present == SelectSeq(crit, LAMBDA c : c \in frame.cols)
      kept == SelectSeq(frame.rows, LAMBDA r : CriticalMask(present, r))
      shown == {present[k] : k \in 1..Len(present)} \cup {"_path"}
  IN  IF present = <<>> THEN <<>>
      ELSE [i \in 1..Len(kept) |-> [c \in shown |-> kept[i][c]]]

CallMissing ==
  /\ fn_pc = "call"
  /\ call.fn = "missing_critical_tags"
  /\ ret' = missing_critical_tags(call.df)
  /\ fn_pc' = "returned"
  /\ UNCHANGED <<call, biVars, orgVars, mainVars>>

\* ---- summarize_hierarchy and detect_duplicates
\* the order of a sorted string column: nulls last
CellLess(a, b) == a # NA /\ (b = NA \/ StrLess(a, b))

TupleLess(a, b) ==
  \E k \in 1..Len(a) : CellLess(a[k], b[k]) /\ \A j \in 1..(k - 1) : a[j] = b[j]

\* the group keys of groupby(keys, dropna=False), sorted
RECURSIVE SortTuples(_)
SortTuples(S) ==
  IF S = {} THEN <<>>
  ELSE LET m == CHOOSE t \in S : \A u \in S \ {t} : TupleLess(t, u)
       IN  <<m>> \o SortTuples(S \ {m})

\* df.columns[0] of an --all-tags index: the attributes come in the order
\* of their DICOM tags
TagOrder ==
  <<"SOPInstanceUID", "SeriesDescription", "PatientID", "ProtocolName",
    "StudyInstanceUID", "SeriesInstanceUID", "InstanceNumber", "_path">>

FirstColumn(cols) ==
  TagOrder[CHOOSE k \in 1..Len(TagOrder) :
             /\ TagOrder[k] \in cols \cup {"_path"}
             /\ \A j \in 1..(k - 1) : TagOrder[j] \notin cols]

summarize_hierarchy(frame) ==
  LET keys == SelectSeq(<<"PatientID", "StudyInstanceUID", "SeriesInstanceUID",
                          "ProtocolName", "SeriesDescription">>,
                        LAMBDA k : k \in frame.cols)
      KeyOf(r) == [k \in 1..Len(keys) |-> r[keys[k]]]
      groups == SortTuples({KeyOf(frame.rows[i]) : i \in 1..Len(frame.rows)})
      counted == IF "SOPInstanceUID" \in frame.cols THEN "SOPInstanceUID"
                 ELSE FirstColumn(frame.cols)
  IN  IF keys = <<>> THEN <<>>
      ELSE [g \in 1..Len(groups) |->
              [key |-> groups[g],
               n_instances |-> Len(SelectSeq(frame.rows,
                                 LAMBDA r : KeyOf(r) = groups[g] /\ r[counted] # NA))]]

\* sort_values(by) of object columns: stable, nulls last in every key
ByLess(a, b, by) == TupleLess([k \in 1..Len(by) |-> a[by[k]]], [k \in 1..Len(by) |-> b[by[k]]])

RECURSIVE InsertBy(_, _, _)
InsertBy(sorted, r, by) ==
  IF sorted = <<>> THEN <<r>>
  ELSE IF ByLess(sorted[1], r, by) THEN <<sorted[1]>> \o InsertBy(Tail(sorted), r, by)
  ELSE <<r>> \o sorted

RECURSIVE SortBy(_, _)
SortBy(rows, by) ==
  IF rows = <<>> THEN <<>>
  ELSE InsertBy(SortBy(Tail(rows), by), rows[1], by)

\* df["SOPInstanceUID"].duplicated(keep=False): nulls are equal to each other
Duplicated(rows, r) ==
  \E i \in 1..Len(rows) :
    rows[i]["_path"] # r["_path"] /\ rows[i]["SOPInstanceUID"] = r["SOPInstanceUID"]

\* the columns detect_duplicates sorts by
DuplicatesBy(cols) ==
  <<"SOPInstanceUID", "SeriesInstanceUID",
    IF "InstanceNumber" \in cols THEN "InstanceNumber" ELSE "_path">>

\* sort_values raises KeyError for a name in `by` that is not a column
DuplicatesKeyError(frame) ==
  /\ "SOPInstanceUID" \in frame.cols
  /\ \E k \in 1..3 : DuplicatesBy(frame.cols)[k] \notin frame.cols \cup {"_path"}

\* what detect_duplicates returns when it returns
detect_duplicates(frame) ==
  IF "SOPInstanceUID" \notin frame.cols THEN <<>>
  ELSE SortBy(SelectSeq(frame.rows, LAMBDA r : Duplicated(frame.rows, r)),
              DuplicatesBy(frame.cols))

\* rows that repeat a SOPInstanceUID or lack it
DupCells == {<<"1">>, NA} \X {<<"1">>, <<"2">>, NA} \X {<<"1">>, NA}

DupRows(n, f) ==
  [i \in 1..n |-> QaRow(QaPath(i), <<"1">>, f[i][1], f[i][2], f[i][3])]

CallHierarchy ==
  /\ fn_pc = "call"
  /\ call.fn = "summarize_hierarchy"
  /\ ret' = summarize_hierarchy(call.df)
  /\ fn_pc' = "returned"
  /\ UNCHANGED <<call, biVars, orgVars, mainVars>>

CallDuplicates ==
  /\ fn_pc = "call"
  /\ call.fn = "detect_duplicates"
  /\ ~DuplicatesKeyError(call.df)
  /\ ret' = detect_duplicates(call.df)
  /\ fn_pc' = "returned"
  /\ UNCHANGED <<call, biVars, orgVars, mainVars>>

CallDuplicatesRaises ==
  /\ fn_pc = "call"
  /\ call.fn = "detect_duplicates"
  /\ DuplicatesKeyError(call.df)
  /\ fn_pc' = "raised"
  /\ UNCHANGED <<call, ret, biVars, orgVars, mainVars>>

\* ---- one call of an analysis
FnIdle ==
  /\ fn_pc = "idle"
  /\ call = [fn |-> "none"]
  /\ ret = <<>>

QaCall(fn, rows, all_tags) == [fn |-> fn, df |-> QaFrame(rows, all_tags)]

QaInit ==
  /\ fn_pc = "call"
  /\ ret = <<>>
  /\ \E all_tags \in BOOLEAN :
       \/ \E n \in 0..MaxQaRecs : \E f \in [1..n -> GapCells] :
            call = QaCall("detect_instance_gaps", GapRows(n, f), all_tags)
       \/ \E n \in 1..MaxQaRecs : \E f \in [1..n -> SeriesCells] :
            call = QaCall("detect_instance_gaps", SeriesRows(n, f), all_tags)
       \/ \E n \in 1..MaxCritRecs : \E f \in [1..n -> CritCells] :
            call = QaCall("missing_critical_tags", CritRows(n, f), all_tags)
       \/ \E n \in 1..MaxDupRecs : \E f \in [1..n -> DupCells] :
            \E fn \in {"summarize_hierarchy", "detect_duplicates"} :
              call = QaCall(fn, DupRows(n, f), all_tags)

CallGaps ==
  /\ fn_pc = "call"
  /\ call.fn = "detect_instance_gaps"
  /\ ret' = detect_instance_gaps(call.df)
  /\ fn_pc' = "returned"
  /\ UNCHANGED <<call, biVars, orgVars, mainVars>>

QaNext ==
  \/ CallGaps
  \/ CallMissing
  \/ CallHierarchy
  \/ CallDuplicates
  \/ CallDuplicatesRaises


\* ====================================================== Protocol Normalizer
\* config.normalize_protocol.  A pattern of the model is a literal, which
\* re.search finds case-insensitively anywhere in the label, or holds an
\* unclosed group, which re.compile rejects with re.error.
Lower(c) == CASE c = "A" -> "a" [] c = "B" -> "b" [] OTHER -> c

LowerStr(s) == [i \in 1..Len(s) |-> Lower(s[i])]

Malformed(pat) == \E i \in 1..Len(pat) : pat[i] = "("

\* where pat occurs in s, flags=re.IGNORECASE
MatchesAt(pat, s, i) ==
  /\ i + Len(pat) - 1 <= Len(s)
  /\ LowerStr(SubSeq(s, i, i + Len(pat) - 1)) = LowerStr(pat)

\* re.search(pat, s, flags=re.IGNORECASE) is not None
re_search(pat, s) == \E i \in 1..Len(s) : MatchesAt(pat, s, i)

\* re.sub(pat, rep, s, flags=re.IGNORECASE): every non-overlapping
\* occurrence, leftmost first
RECURSIVE re_sub(_, _, _)
re_sub(pat, rep, s) ==
  IF s = <<>> THEN <<>>
  ELSE IF MatchesAt(pat, s, 1) THEN rep \o re_sub(pat, rep, SubSeq(s, Len(pat) + 1, Len(s)))
  ELSE <<s[1]>> \o re_sub(pat, rep, Tail(s))

\* the loop over cfg["protocol_regex"] from rule k on
RECURSIVE ApplyRules(_, _, _)
ApplyRules(rules, k, s) ==
  IF k > Len(rules) THEN s
  ELSE IF rules[k].pattern = Empty THEN ApplyRules(rules, k + 1, s)
  ELSE IF Malformed(rules[k].pattern) THEN Raised
  ELSE IF re_search(rules[k].pattern, s) THEN re_sub(rules[k].pattern, rules[k].replace, s)
  ELSE ApplyRules(rules, k + 1, s)

normalize_protocol(name, cfg) ==
  IF name = NA \/ name = Empty THEN <<"N", "A">>
  ELSE LET s == strip(name)
       IN  IF s \in DOMAIN cfg.protocol_map THEN cfg.protocol_map[s]
           ELSE ApplyRules(cfg.protocol_regex, 1, s)

\* ---- one call of normalize_protocol
RECURSIVE StringsUpTo(_, _)
StringsUpTo(chars, n) ==
  IF n = 0 THEN {<<>>}
  ELSE LET shorter == StringsUpTo(chars, n - 1)
       IN  shorter \cup {<<c>> \o t : c \in chars, t \in {u \in shorter : Len(u) = n - 1}}

Labels(max) == {NA} \cup StringsUpTo({"a", "A", "b", " "}, max)

Rules ==
  {[pattern |-> <<"a">>, replace |-> <<"x">>],
   [pattern |-> <<"B">>, replace |-> Empty],
   [pattern |-> <<"(">>, replace |-> <<"x">>],
   [pattern |-> Empty, replace |-> <<"x">>]}

RuleSeqs(max) == UNION {[1..n -> Rules] : n \in 0..max}

Configs(max) ==
  {[protocol_map |-> mp, protocol_regex |-> rules] :
     mp \in {<<>>, [k \in {<<"a">>} |-> <<"m">>]}, rules \in RuleSeqs(max)}

NormInit ==
  /\ fn_pc = "call"
  /\ call \in {[fn |-> "normalize_protocol", name |-> name, cfg |-> cfg] :
                 name \in Labels(MaxLabelLen), cfg \in Configs(MaxRules)}
  /\ ret = <<>>

CallNormalize ==
  /\ fn_pc = "call"
  /\ call.fn = "normalize_protocol"
  /\ ret' = normalize_protocol(call.name, call.cfg)
  /\ fn_pc' = "returned"
  /\ UNCHANGED <<call, biVars, orgVars, mainVars>>

NormNext ==
  \/ CallNormalize


\* ============================================================ apply_filters
\* The filters of organize_dicom.main as a function of the enriched
\* DataFrame and the arguments.  A list argument that is not given is the
\* empty set, a string argument that is not given is NA; the protocol
\* patterns of the model are literals.
FilterColumns == {"Modality", "StudyDate", "PatientID", "ProtocolName", "ProtocolNorm"}

\* ProtocolNorm of a row with the default configuration: the label, or
\* "NA" where the file has no protocol name and no series description
FilterRow(path, modality, date, pid, proto) ==
  [c \in FilterColumns \cup {"_path"} |->
     CASE c = "_path" -> path
       [] c = "Modality" -> modality
       [] c = "StudyDate" -> date
       [] c = "PatientID" -> pid
       [] c = "ProtocolName" -> proto
       [] OTHER -> normalize_protocol(IF proto = NA THEN <<"N", "A">> ELSE proto,
                                      [protocol_map |-> <<>>, protocol_regex |-> <<>>])]

FilterCells ==
  {NA, <<"a">>, <<"b">>} \X {NA, <<"1">>, <<"2">>} \X {NA, <<"1">>, <<"2">>}
    \X {NA, <<"b">>, <<"c">>}

FilterRows(n, f) ==
  [i \in 1..n |-> FilterRow(QaPath(i), f[i][1], f[i][2], f[i][3], f[i][4])]

\* df.columns before apply_filters: ProtocolNorm is always added
FilterColumnsOf(rows, all_tags) ==
  IF ~all_tags THEN FilterColumns
  ELSE {c \in FilterColumns : \E i \in 1..Len(rows) : rows[i][c] # NA} \cup {"ProtocolNorm"}

\* the filters given on the command line: one of them, or all at once
FilterArgs ==
  LET all == [modality : {{}, {<<"a">>}},
              date_range : {NA, <<"2", ":", "3">>, <<":", "1">>, <<"2">>},
              patient_ids : {{}, {<<"1">>}},
              protocol_include : {NA, <<"B">>},
              protocol_exclude : {NA, <<"b">>}]
      given(a) == Cardinality({k \in {"modality", "patient_ids"} : a[k] # {}})
                    + Cardinality({k \in {"date_range", "protocol_include",
                                            "protocol_exclude"} : a[k] # NA})
  IN  {a \in all : given(a) <= 1 \/ given(a) = 5}

\* ns.date_range.split(":", 1), with the defaults of an empty bound; a range
\* without a colon does not unpack and the except clause drops the filter
HasColon(t) == \E i \in 1..Len(t) : t[i] = ":"

ColonAt(t) == CHOOSE i \in 1..Len(t) : t[i] = ":" /\ \A j \in 1..(i - 1) : t[j] # ":"

RangeStart(t) ==
  LET start == strip(SubSeq(t, 1, ColonAt(t) - 1))
  IN  IF start = Empty THEN <<"0", "0", "0", "0", "0", "1", "0", "1">> ELSE start

RangeEnd(t) ==
  LET end == strip(SubSeq(t, ColonAt(t) + 1, Len(t)))
  IN  IF end = Empty THEN <<"9", "9", "9", "9", "1", "2", "3", "1">> ELSE end

\* Series >= value and Series <= value on an object column: False on a null
StrLeq(a, b) == a = b \/ StrLess(a, b)

InRange(v, start, end) == v # NA /\ StrLeq(start, v) /\ StrLeq(v, end)

\* Series.isin(values): False on a null
isin(v, values) == v # NA /\ v \in values

\* Series.astype(str).str.contains(pat, case=False, na=False, regex=True)
contains(v, pat) == re_search(pat, str(v))

apply_filters(frame, args) ==
  LET by_modality == IF args.modality # {} /\ "Modality" \in frame.cols
                     THEN SelectSeq(frame.rows, LAMBDA r : isin(r["Modality"], args.modality))
                     ELSE frame.rows
      by_date == IF args.date_range # NA /\ "StudyDate" \in frame.cols
                    /\ HasColon(args.date_range)
                 THEN SelectSeq(by_modality,
                                LAMBDA r : InRange(r["StudyDate"], RangeStart(args.date_range),
                                                   RangeEnd(args.date_range)))
                 ELSE by_modality
      by_patient == IF args.patient_ids # {} /\ "PatientID" \in frame.cols
                    THEN SelectSeq(by_date, LAMBDA r : isin(r["PatientID"], args.patient_ids))
                    ELSE by_date
      by_include == IF args.protocol_include # NA /\ "ProtocolNorm" \in frame.cols
                    THEN SelectSeq(by_patient,
                                   LAMBDA r : contains(r["ProtocolNorm"], args.protocol_include))
                    ELSE by_patient
  IN  IF args.protocol_exclude # NA /\ "ProtocolNorm" \in frame.cols
      THEN SelectSeq(by_include,
                     LAMBDA r : ~contains(r["ProtocolNorm"], args.protocol_exclude))
      ELSE by_include

FilterInit ==
  /\ fn_pc = "call"
  /\ ret = <<>>
  /\ \E n \in 1..MaxFilterRecs : \E f \in [1..n -> FilterCells] :
       \E all_tags \in BOOLEAN : \E args \in FilterArgs :
         call = [fn |-> "apply_filters",
                 df |-> [rows |-> FilterRows(n, f),
                         cols |-> FilterColumnsOf(FilterRows(n, f), all_tags)],
                 args |-> args]

CallFilters ==
  /\ fn_pc = "call"
  /\ call.fn = "apply_filters"
  /\ ret' = apply_filters(call.df, call.args)
  /\ fn_pc' = "returned"
  /\ UNCHANGED <<call, biVars, orgVars, mainVars>>

FilterNext ==
  \/ CallFilters


\* ============================================================ Index Builder
BiPaths == 1..bi_n

BiRunning == {i \in BiPaths : bi_fut[i] = "running"}

BiInit ==
  /\ bi_n \in 0..MaxPaths
  /\ bi_max_workers \in 1..MaxIndexWorkers
  /\ bi_hang \in SUBSET (1..bi_n)
  /\ bi_fut = [i \in 1..bi_n |-> "none"]
  /\ bi_yielded = {}
  /\ bi_rows = <<>>
  /\ bi_pc = "submit"

\* for path in inputs: futures.append(ex.submit(read_metadata, path, all_tags))
BiSubmit ==
  /\ bi_pc = "submit"
  /\ \E i \in BiPaths :
       /\ bi_fut[i] = "none"
       /\ \A j \in 1..(i - 1) : bi_fut[j] # "none"
       /\ bi_fut' = [bi_fut EXCEPT ![i] = "pending"]
  /\ UNCHANGED <<bi_n, bi_max_workers, bi_hang, bi_yielded, bi_rows, bi_pc, orgVars, mainVars, fnVars>>

\* the submit loop is exhausted; the main thread enters as_completed(futures)
BiSubmitDone ==
  /\ bi_pc = "submit"
  /\ \A i \in BiPaths : bi_fut[i] # "none"
  /\ bi_pc' = "collect"
  /\ UNCHANGED <<bi_n, bi_max_workers, bi_hang, bi_fut, bi_yielded, bi_rows, orgVars, mainVars, fnVars>>

\* a mutant: a task starts only when no other task is running
BiStartAlone(i) ==
  /\ bi_fut[i] = "pending"
  /\ \A j \in 1..(i - 1) : bi_fut[j] # "pending"
  /\ BiRunning = {}
  /\ bi_fut' = [bi_fut EXCEPT ![i] = "running"]
  /\ UNCHANGED <<bi_n, bi_max_workers, bi_hang, bi_yielded, bi_rows, bi_pc, orgVars, mainVars, fnVars>>

\* an idle worker of the pool takes the oldest queued task
BiStart(i) ==
  /\ bi_fut[i] = "pending"
  /\ \A j \in 1..(i - 1) : bi_fut[j] # "pending"
  /\ Cardinality(BiRunning) < bi_max_workers
  /\ bi_fut' = [bi_fut EXCEPT ![i] = "running"]
  /\ UNCHANGED <<bi_n, bi_max_workers, bi_hang, bi_yielded, bi_rows, bi_pc, orgVars, mainVars, fnVars>>

\* read_metadata(path) returns its row
BiReadOk(i) ==
  /\ bi_fut[i] = "running"
  /\ i \notin bi_hang
  /\ bi_fut' = [bi_fut EXCEPT ![i] = "ok"]
  /\ UNCHANGED <<bi_n, bi_max_workers, bi_hang, bi_yielded, bi_rows, bi_pc, orgVars, mainVars, fnVars>>

\* read_metadata(path) raises (pydicom.dcmread on an unreadable file)
BiReadRaise(i) ==
  /\ bi_fut[i] = "running"
  /\ i \notin bi_hang
  /\ bi_fut' = [bi_fut EXCEPT ![i] = "raised"]
  /\ UNCHANGED <<bi_n, bi_max_workers, bi_hang, bi_yielded, bi_rows, bi_pc, orgVars, mainVars, fnVars>>

\* for fut in as_completed(futures): rows.append(fut.result())
BiYieldOk(i) ==
  /\ bi_pc = "collect"
  /\ bi_fut[i] = "ok"
  /\ i \notin bi_yielded
  /\ bi_yielded' = bi_yielded \cup {i}
  /\ bi_rows' = Append(bi_rows, i)
  /\ UNCHANGED <<bi_n, bi_max_workers, bi_hang, bi_fut, bi_pc, orgVars, mainVars, fnVars>>

\* a mutant: the exception of fut.result() leaves the as_completed loop
BiYieldRaisedAborts(i) ==
  /\ bi_pc = "collect"
  /\ bi_fut[i] = "raised"
  /\ i \notin bi_yielded
  /\ bi_yielded' = bi_yielded \cup {i}
  /\ bi_pc' = "done"
  /\ UNCHANGED <<bi_n, bi_max_workers, bi_hang, bi_fut, bi_rows, orgVars, mainVars, fnVars>>

\* fut.result() re-raises the read's exception: except Exception: continue
BiYieldRaised(i) ==
  /\ bi_pc = "collect"
  /\ bi_fut[i] = "raised"
  /\ i \notin bi_yielded
  /\ bi_yielded' = bi_yielded \cup {i}
  /\ UNCHANGED <<bi_n, bi_max_workers, bi_hang, bi_fut, bi_rows, bi_pc, orgVars, mainVars, fnVars>>

\* as_completed is exhausted, the pool is shut down: return rows
BiReturn ==
  /\ bi_pc = "collect"
  /\ bi_yielded = BiPaths
  /\ bi_pc' = "done"
  /\ UNCHANGED <<bi_n, bi_max_workers, bi_hang, bi_fut, bi_yielded, bi_rows, orgVars, mainVars, fnVars>>

BiNext ==
  \/ BiSubmit
  \/ BiSubmitDone
  \/ \E i \in BiPaths : BiStart(i)
  \/ \E i \in BiPaths : BiReadOk(i)
  \/ \E i \in BiPaths : BiReadRaise(i)
  \/ \E i \in BiPaths : BiYieldOk(i)
  \/ \E i \in BiPaths : BiYieldRaised(i)
  \/ BiReturn

\* the state of a component that is not running
BiIdle ==
  /\ bi_n = 0
  /\ bi_max_workers = 1
  /\ bi_hang = {}
  /\ bi_fut = <<>>
  /\ bi_yielded = {}
  /\ bi_rows = <<>>
  /\ bi_pc = "done"

OrgIdle ==
  /\ ns = [on_collision |-> "skip", link_mode |-> "copy", copy_workers |-> 1,
           pad_width |-> 0, dry_run |-> TRUE]
  /\ df = [rows |-> <<>>, cols |-> Columns]
  /\ gone = {}
  /\ fs = <<>>
  /\ fs_at_start = <<>>
  /\ run = 1
  /\ gi = 1
  /\ fi = 1
  /\ pc = "done"
  /\ futures = <<>>
  /\ manifest_rows = <<>>

IndexInit == BiInit /\ OrgIdle /\ MainIdle /\ FnIdle
IndexNext == BiNext


\* ------------------------------------------------------------------ claims
RowCount(p) == Cardinality({k \in 1..Len(bi_rows) : bi_rows[k] = p})

\* what build_index returns: one record per path whose read succeeded,
\* none for a path whose read failed
BiResultExact ==
  bi_pc = "done" =>
    \A p \in BiPaths : RowCount(p) = (IF bi_fut[p] = "ok" THEN 1 ELSE 0)

\* C1: for every list of distinct input paths, every worker count >= 1 and
\* every interleaving of read completions, build_index returns exactly one
\* record for each path whose read succeeded and none for a path whose read
\* failed, and it does return when every read returns or fails.
C1_BuildIndexExact ==
  /\ []BiResultExact
  /\ (bi_hang = {}) => <>(bi_pc = "done")

\* build_index has returned after a read failed and two others succeeded
C1_Witness ==
  /\ bi_pc = "done"
  /\ \E p \in BiPaths : bi_fut[p] = "raised"
  /\ Len(bi_rows) >= 2
  /\ bi_max_workers >= 2

\* ---------------------------------------------------------------- C2, C3
\* the groups row i of the DataFrame belongs to
RowGroups(i) ==
  {g \in 1..Len(OrgKeys) :
     LET members == GroupRows(OrgDf.rows, OrgDf.cols, OrgKeys[g])
     IN  \E k \in 1..Len(members) : members[k] = OrgDf.rows[i]}

ManifestCount(rows, src) ==
  Cardinality({k \in 1..Len(rows) : rows[k].src_path = src})

\* C2: every record of the DataFrame belongs to exactly one series-level
\* group, and it has at most one row in the manifest of that group's
\* directory and none in the manifest of another group, both in the rows
\* being collected and in the manifests written.
C2_OneGroupOneRow ==
  \A i \in 1..Len(OrgDf.rows) :
    LET src == OrgDf.rows[i]["_path"]
    IN  /\ Cardinality(RowGroups(i)) = 1
        /\ \A g \in 1..Len(OrgKeys) :
             ManifestPath(OrgKeys[g]) \in DOMAIN fs =>
               ManifestCount(fs[ManifestPath(OrgKeys[g])].rows, src)
                 <= (IF g \in RowGroups(i) THEN 1 ELSE 0)
        /\ pc \in {"collect", "unwinding"} =>
             ManifestCount(manifest_rows, src) <= (IF gi \in RowGroups(i) THEN 1 ELSE 0)

\* a run has finished on two records of one group that share their
\* SOPInstanceUID, and the group's manifest has one row
C2_Witness ==
  /\ pc = "done" /\ ~ns.dry_run
  /\ Len(df.rows) = 2 /\ Len(OrgKeys) = 1
  /\ df.rows[1]["SOPInstanceUID"] = df.rows[2]["SOPInstanceUID"]
  /\ ManifestPath(OrgKeys[1]) \in DOMAIN fs
  /\ Len(fs[ManifestPath(OrgKeys[1])].rows) = 1

\* the rows that hold the identifier sop
SameSop(sop) == {i \in 1..Len(OrgDf.rows) : OrgDf.rows[i]["SOPInstanceUID"] = sop}

\* the materialized files made from the rows I
FilesOf(I) ==
  {p \in DOMAIN fs : fs[p].kind # "manifest"
                     /\ \E i \in I : fs[p].src = OrgDf.rows[i]["_path"]}

\* every task of every group was placed: each manifest has a row per task
AllPlaced ==
  \A g \in 1..Len(OrgKeys) :
    /\ ManifestPath(OrgKeys[g]) \in DOMAIN fs
    /\ Len(fs[ManifestPath(OrgKeys[g])].rows)
         = Len(PlanGroup(OrgDf, OrgKeys[g], ns.pad_width))

\* the first of the rows I by the sort order resolved for them
FirstBySortOrder(I) ==
  LET recs == SelectSeq(OrgDf.rows, LAMBDA r : \E i \in I : r = OrgDf.rows[i])
  IN  sort_values(recs, SortMode(recs, OrgDf.cols))[1]

\* C3: after a first run in which every task was placed, the records that
\* share a SOPInstanceUID have exactly one materialized file between them,
\* made from the record that comes first in the resolved sort order.
C3_OneFilePerInstance ==
  (pc = "done" /\ run = 1 /\ ~ns.dry_run /\ AllPlaced) =>
    \A sop \in {OrgDf.rows[i]["SOPInstanceUID"] : i \in 1..Len(OrgDf.rows)} \ {NA} :
      Cardinality(SameSop(sop)) >= 2 =>
        /\ Cardinality(FilesOf(SameSop(sop))) = 1
        /\ \A p \in FilesOf(SameSop(sop)) :
             fs[p].src = FirstBySortOrder(SameSop(sop))["_path"]

\* ---------------------------------------------------------------- C4, C5
RECURSIVE SumInstances(_)
SumInstances(s) == IF s = <<>> THEN 0 ELSE s[1].n_instances + SumInstances(Tail(s))

\* C4: the n_instances of the series table add up to the number of
\* records, and the n_instances of a group is the number of records whose
\* key tuple is the group's.
C4_CountsAddUp ==
  (main_pc = "end" /\ plan # <<>>) =>
    /\ SumInstances(series_df) = Len(df.rows)
    /\ \A g \in 1..Len(series_df) :
         series_df[g].n_instances
           = Cardinality({i \in 1..Len(OrgDf.rows) :
                            SeriesKey(OrgDf.rows[i], OrgDf.cols) = series_df[g].key})

RowOf(src) == CHOOSE r \in {OrgDf.rows[i] : i \in 1..Len(OrgDf.rows)} : r["_path"] = src

Depth(r) == zpos(r["ImagePositionPatient"])

DepthOrdered(tasks) ==
  \A i, j \in 1..Len(tasks) :
    i < j => Depth(RowOf(tasks[i].src))[1] < Depth(RowOf(tasks[j].src))[1]

Reverse(s) == [i \in 1..Len(s) |-> s[Len(s) + 1 - i]]

\* C5: in a group whose members all lack InstanceNumber and have distinct,
\* parseable positions, the sequential names follow the ascending depth of
\* the members, and the names are the same when the records come in the
\* opposite order.
C5_DepthOrder ==
  (main_pc # "organize" /\ plan # <<>>) =>
    \A g \in 1..Len(plan) :
      LET members == GroupRows(OrgDf.rows, OrgDf.cols, plan[g].key)
      IN  (/\ \A k \in 1..Len(members) :
                /\ members[k]["InstanceNumber"] = NA
                /\ Depth(members[k]) # NaN
           /\ \A k, l \in 1..Len(members) :
                k # l => Depth(members[k]) # Depth(members[l]))
          => /\ DepthOrdered(plan[g].tasks)
             /\ PlanGroup([rows |-> Reverse(OrgDf.rows), cols |-> OrgDf.cols],
                          plan[g].key, ns.pad_width) = plan[g].tasks

\* ----------------------------------------------------------- C6 .. C10
\* name__N.ext of name.ext
Suffixed(dst, N) ==
  splitext(dst)[1] \o <<"_", "_">> \o StrInt(N) \o splitext(dst)[2]

\* task t, whose destination exists, places its file in this step
PlacesOnCollision(t) ==
  /\ t <= Len(futures') /\ futures[t].state = "running"
  /\ futures'[t].state = "done" /\ futures'[t].res \notin {None, Raised}
  /\ futures[t].dst \in DOMAIN fs

\* C6: under rename, a record whose destination name.ext exists is placed
\* at name__N.ext for the smallest N >= 1 whose name__N.ext does not exist,
\* with the extension of name.ext, and every file that existed is unchanged.
C6_RenameFrame ==
  [][\A t \in Tasks :
       (ns.on_collision = "rename" /\ PlacesOnCollision(t)) =>
         /\ \E N \in 1..(Cardinality(DOMAIN fs) + 1) :
              /\ futures'[t].res = Suffixed(futures[t].dst, N)
              /\ \A m \in 1..(N - 1) : Suffixed(futures[t].dst, m) \in DOMAIN fs
         /\ futures'[t].res \notin DOMAIN fs
         /\ futures'[t].res \in DOMAIN fs'
         /\ fs'[futures'[t].res].src = futures[t].src
         /\ splitext(futures'[t].res)[2] = splitext(futures[t].dst)[2]
         /\ \A q \in DOMAIN fs : q \in DOMAIN fs' /\ fs'[q] = fs[q]]_vars

\* a third run under rename has placed name__2.ext beside name.ext and
\* name__1.ext
C6_Witness ==
  /\ ns.on_collision = "rename"
  /\ \E p \in DOMAIN fs :
       /\ splitext(p)[2] # <<>>
       /\ Suffixed(p, 1) \in DOMAIN fs
       /\ Suffixed(p, 2) \in DOMAIN fs

\* C7: every row collected for a group's manifest belongs to a record that
\* was placed, and its new_name is the name of that record's file in the
\* target directory.
C7_ManifestRowsPlaced ==
  (~ns.dry_run /\ pc = "collect") =>
    \A k \in 1..Len(manifest_rows) :
      LET p == join(TargetDir(OrgKeys[gi]), manifest_rows[k].new_name)
      IN  p \in DOMAIN fs /\ fs[p].src = manifest_rows[k].src_path

\* C8: under hardlink and symlink, a record whose materialization ran ends
\* up placed at its destination name and reported: by the link, or by a
\* full copy when the link was rejected.
C8_LinkFallsBackToCopy ==
  [][\A t \in Tasks :
       (/\ ns.link_mode \in {"hardlink", "symlink"}
        /\ t <= Len(futures') /\ futures[t].state = "running"
        /\ futures'[t].state = "done") =>
         /\ futures'[t].res = futures[t].dst_path
         /\ futures[t].dst_path \in DOMAIN fs'
         /\ fs'[futures[t].dst_path].src = futures[t].src
         /\ fs'[futures[t].dst_path].kind \in {ns.link_mode, "copy"}]_vars

\* C9: no failure on one file aborts the run.
C9_NeverAborted == pc \notin {"unwinding", "aborted"}

\* C10 as stated: under skip and rename, after a second run the output
\* root holds what it held after the first.
C10_Idempotent ==
  (pc = "done" /\ run = 2 /\ ns.on_collision \in {"skip", "rename"}) =>
    fs = fs_at_start

\* under overwrite, a file reported by a task of this run was written by
\* this run
OverwriteRedoes ==
  (ns.on_collision = "overwrite" /\ pc \in {"collect", "unwinding"}) =>
    \A t \in Tasks :
      (futures[t].state = "done" /\ futures[t].res \notin {None, Raised}) =>
        /\ futures[t].res \in DOMAIN fs
        /\ fs[futures[t].res].run = run

\* C10 amended: under skip and rename no step of any run changes or
\* removes a materialized file that exists (a run may add files and
\* rewrite manifests); under overwrite a run redoes the writes.
C10_RerunKeepsFiles ==
  /\ [][ns.on_collision \in {"skip", "rename"} =>
          \A p \in DOMAIN fs :
            fs[p].kind # "manifest" => (p \in DOMAIN fs' /\ fs'[p] = fs[p])]_vars
  /\ []OverwriteRedoes

\* a second run under rename has finished and added files beside the ones
\* of the first run
C10_Witness ==
  /\ pc = "done" /\ run = 2 /\ ns.on_collision = "rename"
  /\ \E p \in DOMAIN fs_at_start : fs_at_start[p].kind # "manifest"
  /\ \E p \in DOMAIN fs : p \notin DOMAIN fs_at_start

\* ---- C11: for every series with at least one parseable instance number
\* detect_instance_gaps returns exactly one row whose min and max are the
\* least and greatest observed values, whose n_expected is max - min + 1,
\* whose n_actual is the number of distinct observed values, whose
\* n_missing is the number of integers of [min, max] not observed, and whose
\* missing_list names the first fifty of them in ascending order, with a
\* truncation marker exactly when there are more; a series with no
\* parseable value has no row.
Observed(frame, sid) ==
  {to_numeric(frame.rows[i]["InstanceNumber"])[1] :
     i \in {j \in 1..Len(frame.rows) :
              /\ frame.rows[j]["SeriesInstanceUID"] = sid
              /\ to_numeric(frame.rows[j]["InstanceNumber"]) # NaN}}

Truncated(text) == text # <<>> /\ text[Len(text)] = Ellipsis[1]

\* the numbers a missing_list names, in the order it names them
RECURSIVE SplitInts(_)
SplitInts(text) ==
  IF text = <<>> THEN <<>>
  ELSE IF \E i \in 1..Len(text) : text[i] = ","
  THEN LET k == CHOOSE i \in 1..Len(text) :
                  text[i] = "," /\ \A j \in 1..(i - 1) : text[j] # ","
       IN  <<ParseDigits(SubSeq(text, 1, k - 1))>> \o SplitInts(SubSeq(text, k + 1, Len(text)))
  ELSE <<ParseDigits(text)>>

Listed(text) ==
  SplitInts(IF Truncated(text) THEN SubSeq(text, 1, Len(text) - 1) ELSE text)

GapRowRight(r, obs) ==
  LET lo == CHOOSE v \in obs : \A w \in obs : v <= w
      hi == CHOOSE v \in obs : \A w \in obs : v >= w
      absent == (lo..hi) \ obs
      first == {v \in absent : Cardinality({w \in absent : w < v}) < MissingListLimit}
      listed == Listed(r.missing_list)
  IN  /\ r.min = lo
      /\ r.max = hi
      /\ r.n_expected = hi - lo + 1
      /\ r.n_actual = Cardinality(obs)
      /\ r.n_missing = Cardinality(absent)
      /\ {listed[i] : i \in 1..Len(listed)} = first
      /\ \A i, j \in 1..Len(listed) : i < j => listed[i] < listed[j]
      /\ Truncated(r.missing_list) <=> Cardinality(absent) > MissingListLimit

C11_GapReport ==
  (fn_pc = "returned" /\ call.fn = "detect_instance_gaps"
     /\ {"InstanceNumber", "SeriesInstanceUID"} \subseteq call.df.cols)
  => \A sid \in {call.df.rows[i]["SeriesInstanceUID"] : i \in 1..Len(call.df.rows)} :
       LET obs == Observed(call.df, sid)
           mine == {k \in 1..Len(ret) : ret[k].SeriesInstanceUID = sid}
       IN  IF obs = {} THEN mine = {}
           ELSE /\ Cardinality(mine) = 1
                /\ \A k \in mine : GapRowRight(ret[k], obs)

\* a series with a repeated value and more than fifty missing values
C11_Witness ==
  /\ fn_pc = "returned"
  /\ call.fn = "detect_instance_gaps"
  /\ Len(call.df.rows) = 4
  /\ \E k \in 1..Len(ret) :
       /\ ret[k].n_missing > MissingListLimit
       /\ ret[k].n_actual = 3

\* ---- C12: the missing-critical-tags report is empty if and only if every
\* record has a non-empty value for each of the four mandatory identifiers,
\* also when one of the four is present on no record.
Complete(r) == \A k \in 1..Len(crit) : r[crit[k]] # NA /\ r[crit[k]] # Empty

C12_MissingReportExact ==
  (fn_pc = "returned" /\ call.fn = "missing_critical_tags")
  => (ret = <<>> <=> \A i \in 1..Len(call.df.rows) : Complete(call.df.rows[i]))

\* ---- C13: normalize never raises; a rule whose pattern is malformed or
\* does not match counts as non-matching, so the result is what the rule
\* set without its malformed rules gives.
WellFormed(cfg) ==
  [cfg EXCEPT !.protocol_regex = SelectSeq(@, LAMBDA rule : ~Malformed(rule.pattern))]

C13_NormalizeNeverRaises ==
  (fn_pc = "returned" /\ call.fn = "normalize_protocol")
  => /\ ret # Raised
     /\ ret = normalize_protocol(call.name, WellFormed(call.cfg))

\* ---- C14: in a group of N records the k-th record in sort order is named
\* k zero-padded to width W followed by the record's original extension,
\* with W = pad_width if pad_width > 0 and max(4, digits of N) otherwise
\* (7 records give 0001..0007, 12345 records give 5 digits); the names of a
\* group are pairwise distinct.
NameWidth(n) == IF ns.pad_width > 0 THEN ns.pad_width ELSE Max(4, Len(StrInt(n)))

SequentialName(k, w, src) ==
  Zeros(w - Len(StrInt(k))) \o StrInt(k) \o splitext(basename(src))[2]

C14_SequentialNames ==
  /\ PadWidth(0, 7) = 4
  /\ ZeroPad(1, PadWidth(0, 7)) = <<"0", "0", "0", "1">>
  /\ ZeroPad(7, PadWidth(0, 7)) = <<"0", "0", "0", "7">>
  /\ PadWidth(0, 12345) = 5
  /\ \A g \in 1..Len(plan) :
       LET tasks == plan[g].tasks
       IN  /\ \A k \in 1..Len(tasks) :
                tasks[k].new_name = SequentialName(k, NameWidth(Len(tasks)), tasks[k].src)
           /\ \A j, k \in 1..Len(tasks) :
                j # k => tasks[j].new_name # tasks[k].new_name

\* a group of two records, one with an extension and one without, named
\* with the default width
C14_Witness ==
  /\ main_pc = "aggregate"
  /\ ns.pad_width = 0
  /\ \E g \in 1..Len(plan) :
       /\ Len(plan[g].tasks) = 2
       /\ \E j, k \in 1..2 :
            /\ splitext(basename(plan[g].tasks[j].src))[2] # <<>>
            /\ splitext(basename(plan[g].tasks[k].src))[2] = <<>>

\* ---- C15: none of the four QA analyses raises, whichever of the
\* attributes it uses are absent from all records, and each returns an
\* empty result when all the attributes it uses are absent.
Uses(fn) ==
  CASE fn = "summarize_hierarchy" ->
         {"PatientID", "StudyInstanceUID", "SeriesInstanceUID", "ProtocolName",
          "SeriesDescription", "SOPInstanceUID"}
    [] fn = "detect_duplicates" -> {"SOPInstanceUID", "SeriesInstanceUID", "InstanceNumber"}
    [] fn = "detect_instance_gaps" -> {"SeriesInstanceUID", "InstanceNumber"}
    [] OTHER -> {"PatientID", "StudyInstanceUID", "SeriesInstanceUID", "SOPInstanceUID"}

C15_AnalysesNeverRaise ==
  /\ fn_pc # "raised"
  /\ (fn_pc = "returned" /\ Uses(call.fn) \cap call.df.cols = {}) => ret = <<>>

\* ---- C16: every filter keeps a record on which the filtered attribute is
\* absent and excludes only the records that carry the attribute with a
\* non-matching value: a record is in the result exactly if each given
\* filter finds its attribute absent or matching.
Passes(r, args) ==
  /\ args.modality # {} => (r["Modality"] = NA \/ r["Modality"] \in args.modality)
  /\ (args.date_range # NA /\ HasColon(args.date_range))
       => \/ r["StudyDate"] = NA
          \/ /\ ~StrLess(r["StudyDate"], RangeStart(args.date_range))
             /\ ~StrLess(RangeEnd(args.date_range), r["StudyDate"])
  /\ args.patient_ids # {} => (r["PatientID"] = NA \/ r["PatientID"] \in args.patient_ids)
  /\ args.protocol_include # NA
       => (r["ProtocolName"] = NA \/ re_search(args.protocol_include, r["ProtocolName"]))
  /\ args.protocol_exclude # NA
       => (r["ProtocolName"] = NA \/ ~re_search(args.protocol_exclude, r["ProtocolName"]))

C16_FiltersKeepAbsent ==
  (fn_pc = "returned" /\ call.fn = "apply_filters")
  => \A i \in 1..Len(call.df.rows) :
       (\E k \in 1..Len(ret) : ret[k] = call.df.rows[i]) <=> Passes(call.df.rows[i], call.args)

\* ---- C17: whichever ordering key a group is sorted by (instance number,
\* depth or acquisition time), its records without that key come before
\* all its records with it.
HasOrderKey(r, mode) ==
  CASE mode = "InstanceNumber" -> to_numeric(r["InstanceNumber"]) # NaN
    [] mode = "zpos" -> Depth(r) # NaN
    [] mode = "AcquisitionTime" -> r["AcquisitionTime"] # NA
    [] OTHER -> TRUE

C17_KeylessFirst ==
  \A g \in 1..Len(plan) :
    LET ordered == [k \in 1..Len(plan[g].tasks) |-> RowOf(plan[g].tasks[k].src)]
        mode == SortMode(ordered, OrgDf.cols)
    IN  \A j, k \in 1..Len(ordered) :
          (j < k /\ HasOrderKey(ordered[j], mode)) => HasOrderKey(ordered[k], mode)

\* ---- C18: with at least two workers, when the read of one path never
\* returns, the read of every other path is still started and completed;
\* the hung read keeps only its own worker.
C18_HungReadStallsOnlyItself ==
  /\ [](\A p \in bi_hang : bi_fut[p] \notin {"ok", "raised"})
  /\ (bi_max_workers >= 2 /\ Cardinality(bi_hang) = 1)
       => <>(\A p \in BiPaths \ bi_hang : bi_fut[p] \in {"ok", "raised"})

\* the hung read holds a worker while every other read has completed
C18_Witness ==
  /\ bi_max_workers >= 2
  /\ bi_n = MaxPaths
  /\ Cardinality(bi_hang) = 1
  /\ \A p \in bi_hang : bi_fut[p] = "running" /\ p < bi_n
  /\ \A p \in BiPaths \ bi_hang : bi_fut[p] \in {"ok", "raised"}

\* ---- C19: no two materialization tasks of one run have the same
\* destination path: the destinations computed for the run are pairwise
\* distinct.
PlannedDestinations ==
  UNION {{<<g, k>> : k \in 1..Len(plan[g].tasks)} : g \in 1..Len(plan)}

C19_DestinationsDistinct ==
  \A a, b \in PlannedDestinations :
    a # b => plan[a[1]].tasks[a[2]].dst # plan[b[1]].tasks[b[2]].dst

\* ---- C20: two different groups of one run never get the same target
\* directory.
C20_OwnDirectory ==
  \A g, h \in 1..Len(plan) :
    plan[g].key # plan[h].key => plan[g].target_dir # plan[h].target_dir

\* ---- C21: deduplication removes a record only when another record of
\* the group has the same present SOPInstanceUID: a group keeps one file
\* per present identifier and every record without the identifier, so a
\* group of N records that all lack it yields N files.
C21_AbsentIdNeverDuplicate ==
  \A g \in 1..Len(plan) :
    LET members == GroupRows(OrgDf.rows, OrgDf.cols, plan[g].key)
        present == {members[k]["SOPInstanceUID"] : k \in 1..Len(members)} \ {NA}
        absent == {k \in 1..Len(members) : members[k]["SOPInstanceUID"] = NA}
    IN  Len(plan[g].tasks) = Cardinality(present) + Cardinality(absent)

\* ---- C22: for every number of copy workers and every completion order
\* the rows collected for a group are those of its placed records in
\* sequential order, each with the result a single worker gives, every row
\* is collected after its task has finished, and the group's manifest is
\* written with these rows only after all its tasks have finished.
SingleWorkerResult(dst) ==
  IF dst \notin DOMAIN fs_at_start THEN dst
  ELSE CASE ns.on_collision = "skip" -> Skipped
         [] ns.on_collision = "rename" -> RenamedPath(dst, fs_at_start)
         [] OTHER -> dst

\* the rows of the first n tasks of the group in sequential order, without
\* the tasks whose copy or link failed
SequentialRows(n) ==
  LET tasks == PlanGroup(OrgDf, OrgKeys[gi], ns.pad_width)
      placed == SelectSeq([t \in 1..n |-> t], LAMBDA t : futures[t].res # None)
  IN  [k \in 1..Len(placed) |->
         ManifestRow(basename(SingleWorkerResult(tasks[placed[k]].dst)),
                     tasks[placed[k]].base, tasks[placed[k]].src)]

CollectedInOrder ==
  (pc = "collect" /\ ~ns.dry_run)
  => /\ \A t \in 1..(fi - 1) : futures[t].state = "done"
     /\ manifest_rows = SequentialRows(fi - 1)

ManifestAfterTasks ==
  (pc = "collect" /\ pc' = "group" /\ ~ns.dry_run)
  => /\ \A t \in Tasks : futures[t].state = "done"
     /\ manifest_rows = SequentialRows(Len(futures))
     /\ manifest_rows # <<>>
          => /\ ManifestPath(OrgKeys[gi]) \in DOMAIN fs'
             /\ fs'[ManifestPath(OrgKeys[gi])].rows = manifest_rows

C22_ManifestAsSingleWorker ==
  /\ []CollectedInOrder
  /\ [][ManifestAfterTasks]_vars

\* a manifest of two rows written by a run with two copy workers
C22_Witness ==
  /\ ns.copy_workers >= 2
  /\ pc = "group"
  /\ \E p \in DOMAIN fs :
       /\ fs[p].kind = "manifest"
       /\ Len(fs[p].rows) >= 2
       /\ \E q \in DOMAIN fs : fs[q].kind # "manifest" /\ fs[q].run = run

\* The pool's threads and the main thread run whenever they can.
SpecIndex == IndexInit /\ [][IndexNext]_vars /\ WF_vars(IndexNext)

\* The Organizer: any number of runs of the organize loop on one output root
Init == OrgInit /\ BiIdle /\ MainIdle /\ FnIdle
Next == OrgNext
Spec == Init /\ [][Next]_vars

\* The names and the series table main computes from a DataFrame
InitMain == MainInit /\ OrgRest /\ BiIdle /\ FnIdle

SpecMain == InitMain /\ [][MainNext]_vars

\* One call of a QA analysis on a DataFrame
InitQa == QaInit /\ OrgIdle /\ MainIdle /\ BiIdle

SpecQa == InitQa /\ [][QaNext]_vars

\* One call of normalize_protocol on a label and a rule set
InitNorm == NormInit /\ OrgIdle /\ MainIdle /\ BiIdle

SpecNorm == InitNorm /\ [][NormNext]_vars

\* One call of apply_filters on a DataFrame and a set of filters
InitFilter == FilterInit /\ OrgIdle /\ MainIdle /\ BiIdle

SpecFilter == InitFilter /\ [][FilterNext]_vars

====
